---- MODULE Spec2Model ----
(***************************************************************************)
(* Model of homeassistant/components/ecobee/binary_sensor.py: the setup    *)
(* routine async_setup_entry, the EcobeeVentilator entity and the          *)
(* EcobeeBinarySensor (occupancy) entity, all reading one shared data      *)
(* holder (hass.data[DOMAIN]) whose thermostat list is replaced by every   *)
(* refresh.                                                                *)
(*                                                                         *)
(* Python values are modelled as follows.                                  *)
(*   dict            record; an optional key ("code") is a field that is   *)
(*                   in DOMAIN of the record or not                        *)
(*   list            sequence; a Python index i is position i + 1          *)
(*   str             string, f-strings are concatenations with \o          *)
(*   None            the value None below, distinct from every string the  *)
(*                   model uses                                            *)
(*   equipmentStatus the comma separated string is the sequence of its     *)
(*                   equipment names; no equipment name of the vendor API  *)
(*                   other than "ventilator" contains "ventilator", so the *)
(*                   substring test is membership of that name             *)
(***************************************************************************)
EXTENDS Integers, Sequences, FiniteSets, TLC

VARIABLES
    thermostats,   \* data.ecobee.thermostats, the list the holder returns now
    installation,  \* the devices behind the account: what a full fetch reports
    pc,            \* async_setup_entry: "start", "done" or "raised"
    add_calls,     \* number of async_add_entities calls made by the setup
    dev,           \* the EcobeeBinarySensor entities handed to async_add_entities
    entities,      \* the EcobeeVentilator entities handed to async_add_entities
    services,      \* entity services registered on the platform
    dev_pc,        \* per EcobeeBinarySensor: "idle" or "await" (in data.update())
    entities_pc,   \* per EcobeeVentilator: "idle" or "await" (in data.update())
    completed      \* the entity whose async_update returned in the last step

vars == <<thermostats, installation, pc, add_calls, dev, entities, services,
          dev_pc, entities_pc, completed>>

----------------------------------------------------------------------------
(* Bounds of the installations the setup is explored on. *)

\* thermostats of one account
MaxThermostats == 2
\* remote sensors of one account, over all its thermostats
MaxSensors == 2

None == "<None>"

SensorNames == {"Bedroom", "Hall"}
VentilatorTypes == {"none", "hrv"}
ModelNumbers == {"athenaSmart", "vulcanXL"}
OccupancyValues == {"true", "false"}
EquipmentStatuses == {<<"fan">>, <<"ventilator", "fan">>}

\* the capability lists a sensor can report: no occupancy entry, one, or two
CapabilityTypes ==
    { <<"temperature">>, <<"temperature", "occupancy">>, <<"occupancy", "occupancy">> }

SERVICE_SET_VENTILATOR_MIN_ON_TIME_HOME == "set_ventilator_min_on_time_home"
SERVICE_SET_VENTILATOR_MIN_ON_TIME_AWAY == "set_ventilator_min_on_time_away"
SERVICE_SET_VENTILATOR_TIMER == "set_ventilator_timer"

\* .const ECOBEE_MODEL_TO_NAME, the static model table (two of its entries)
ECOBEE_MODEL_TO_NAME ==
    [m \in {"athenaSmart", "nikeSmart"} |->
        IF m = "athenaSmart" THEN "ecobee3 Smart" ELSE "ecobee3 lite Smart"]

MANUFACTURER == "ecobee"
DOMAIN_NAME == "ecobee"

----------------------------------------------------------------------------
(* The shared data holder's client: data.ecobee.get_thermostat and          *)
(* data.ecobee.get_remote_sensors index the current thermostat list.        *)

get_thermostat(ths, index) == ths[index + 1]

get_remote_sensors(ths, index) == ths[index + 1].remoteSensors

----------------------------------------------------------------------------
(* Installations: what the vendor reports for an account.                   *)

Capability(type, value) ==
    [type |-> type, value |-> IF type = "occupancy" THEN value ELSE "712"]

\* a remote sensor record; only sensors paired by code carry the key "code"
RemoteSensor(kind, i, j, value) ==
    LET base == [name |-> kind.name,
                 id |-> "rs:10" \o ToString(j),
                 capability |-> [k \in 1..Len(kind.capability) |->
                                    Capability(kind.capability[k], value)]]
    IN IF kind.coded
       THEN [name |-> base.name, id |-> base.id, capability |-> base.capability,
             code |-> "C" \o ToString(i) \o ToString(j)]
       ELSE base

Thermostat(i, base, sensors) ==
    [identifier |-> "4110" \o ToString(i),
     name |-> "Thermostat" \o ToString(i),
     modelNumber |-> base.modelNumber,
     equipmentStatus |-> <<"fan">>,
     settings |-> [ventilatorType |-> base.ventilatorType],
     runtime |-> [connected |-> TRUE],
     remoteSensors |-> sensors]

SensorKinds == [name : SensorNames, coded : BOOLEAN, capability : CapabilityTypes]
\* the setup reads no model number: one is enough where only the setup runs
ThermostatBases == [ventilatorType : VentilatorTypes, modelNumber : {"athenaSmart"}]

RECURSIVE SumTo(_, _)
SumTo(cnt, n) == IF n = 0 THEN 0 ELSE cnt[n] + SumTo(cnt, n - 1)

\* the first fetch of an installation of n thermostats, cnt[i] sensors on the i-th
FirstFetch(n, base, cnt, flat) ==
    [i \in 1..n |->
        Thermostat(i, base[i],
            [j \in 1..cnt[i] |->
                RemoteSensor(flat[SumTo(cnt, i - 1) + j], i, j, "false")])]

----------------------------------------------------------------------------
(* The entity classes.                                                      *)

OCCUPANCY == "occupancy"
RUNNING == "running"

\* EcobeeBinarySensor.__init__
EcobeeBinarySensor(sensor_name, sensor_index) ==
    [_name |-> sensor_name \o " Occupancy",
     sensor_name |-> sensor_name,
     index |-> sensor_index,
     _state |-> None]

\* "ventilator" in thermostat["equipmentStatus"]
VentilatorRunning(thermostat) ==
    \E k \in 1..Len(thermostat.equipmentStatus) :
        thermostat.equipmentStatus[k] = "ventilator"

\* EcobeeVentilator.__init__: the record fetched at construction is kept
EcobeeVentilator(ths, name, thermostat_index) ==
    [_name |-> name \o " Ventilator",
     sensor_name |-> name \o " Ventilator",
     thermostat |-> get_thermostat(ths, thermostat_index),
     thermostat_index |-> thermostat_index,
     _state |-> VentilatorRunning(get_thermostat(ths, thermostat_index))]

----------------------------------------------------------------------------
(* async_setup_entry.                                                       *)

IsOccupancy(item) == item.type = "occupancy"

\* the inner loop over sensor["capability"]: one append per occupancy item
SensorEntities(sensor, index) ==
    [k \in 1..Len(SelectSeq(sensor.capability, IsOccupancy)) |->
        EcobeeBinarySensor(sensor.name, index)]

\* the loop over data.ecobee.get_remote_sensors(index), from position j on
RECURSIVE RemoteSensorLoop(_, _, _)
RemoteSensorLoop(sensors, j, index) ==
    IF j > Len(sensors) THEN <<>>
    ELSE SensorEntities(sensors[j], index) \o RemoteSensorLoop(sensors, j + 1, index)

HasVentilator_any(thermostat) == TRUE

\* thermostat["settings"]["ventilatorType"] != "none"
HasVentilator(thermostat) == thermostat.settings.ventilatorType # "none"

\* The loop over range(len(data.ecobee.thermostats)) from index on. The local
\* name entities is bound anew by every iteration and by nothing else.
RECURSIVE ThermostatLoop(_, _, _)
ThermostatLoop(ths, index, locals) ==
    IF index >= Len(ths) THEN locals
    ELSE ThermostatLoop(ths, index + 1,
            [dev |-> locals.dev
                        \o RemoteSensorLoop(get_remote_sensors(ths, index), 1, index),
             entities_bound |-> TRUE,
             entities |->
                IF HasVentilator(get_thermostat(ths, index))
                THEN <<EcobeeVentilator(ths, get_thermostat(ths, index).name, index)>>
                ELSE <<>>])

SetupLocals(ths) ==
    ThermostatLoop(ths, 0, [dev |-> <<>>, entities_bound |-> FALSE, entities |-> <<>>])

AllServices ==
    { SERVICE_SET_VENTILATOR_MIN_ON_TIME_HOME,
      SERVICE_SET_VENTILATOR_MIN_ON_TIME_AWAY,
      SERVICE_SET_VENTILATOR_TIMER }

\* The whole routine runs without suspending. Reading the unbound local
\* entities at the second async_add_entities call raises UnboundLocalError.
async_setup_entry ==
    /\ pc = "start"
    /\ LET locals == SetupLocals(thermostats) IN
        /\ dev' = locals.dev
        /\ dev_pc' = [e \in 1..Len(locals.dev) |-> "idle"]
        /\ IF locals.entities_bound
           THEN /\ entities' = locals.entities
                /\ entities_pc' = [e \in 1..Len(locals.entities) |-> "idle"]
                /\ add_calls' = 2
                /\ services' = AllServices
                /\ pc' = "done"
           ELSE /\ entities' = <<>>
                /\ entities_pc' = <<>>
                /\ add_calls' = 1
                /\ services' = {}
                /\ pc' = "raised"
    /\ completed' = None
    /\ UNCHANGED <<thermostats, installation>>

----------------------------------------------------------------------------
(* EcobeeVentilator properties.                                             *)

\* unique_id: f"{self.thermostat['identifier']}", of the record the entity holds
V_unique_id(v) == v.thermostat.identifier

\* name: self._name.rstrip(); _name ends in "Ventilator", nothing is stripped
V_name(v) == v._name

KeyError == "<KeyError>"

ModelOf_uncaught(modelNumber) ==
    IF modelNumber \in DOMAIN ECOBEE_MODEL_TO_NAME
    THEN ECOBEE_MODEL_TO_NAME[modelNumber] \o " Thermostat"
    ELSE KeyError

\* try: f"{ECOBEE_MODEL_TO_NAME[modelNumber]} Thermostat" except KeyError: None
ModelOf(modelNumber) ==
    IF modelNumber \in DOMAIN ECOBEE_MODEL_TO_NAME
    THEN ECOBEE_MODEL_TO_NAME[modelNumber] \o " Thermostat"
    ELSE None

\* an uncaught exception leaves the property without a value
DeviceInfo(identifier, model, name) ==
    IF model = KeyError THEN [exception |-> KeyError]
    ELSE [identifiers |-> {<<DOMAIN_NAME, identifier>>},
          manufacturer |-> MANUFACTURER,
          model |-> model,
          name |-> name]

V_device_info(v) ==
    DeviceInfo(v.thermostat.identifier, ModelOf(v.thermostat.modelNumber), V_name(v))

\* available: looks the record up again by index
V_available(ths, v) == get_thermostat(ths, v.thermostat_index).runtime.connected

\* is_on: reads the record the entity holds
V_is_on(v) == VentilatorRunning(v.thermostat)

V_device_class == RUNNING

----------------------------------------------------------------------------
(* EcobeeBinarySensor properties.                                           *)

BS_device_class == OCCUPANCY

\* unique_id: the first sensor of the current list with the entity's name
RECURSIVE BS_unique_id_from(_, _, _, _)
BS_unique_id_from(ths, e, sensors, j) ==
    IF j > Len(sensors) THEN None
    ELSE IF sensors[j].name = e.sensor_name
         THEN IF "code" \in DOMAIN sensors[j]
              THEN sensors[j].code \o "-" \o BS_device_class
              ELSE get_thermostat(ths, e.index).identifier \o "-" \o sensors[j].id
                       \o "-" \o BS_device_class
         ELSE BS_unique_id_from(ths, e, sensors, j + 1)

BS_unique_id(ths, e) == BS_unique_id_from(ths, e, get_remote_sensors(ths, e.index), 1)

\* device_info: the first sensor with the entity's name decides; None without one
RECURSIVE BS_device_info_from(_, _, _, _)
BS_device_info_from(ths, e, sensors, j) ==
    IF j > Len(sensors) THEN None
    ELSE IF sensors[j].name # e.sensor_name
         THEN BS_device_info_from(ths, e, sensors, j + 1)
         ELSE IF "code" \in DOMAIN sensors[j]
              THEN DeviceInfo(sensors[j].code, "ecobee Room Sensor", e.sensor_name)
              ELSE DeviceInfo(get_thermostat(ths, e.index).identifier,
                              ModelOf(get_thermostat(ths, e.index).modelNumber),
                              e.sensor_name)

BS_device_info(ths, e) ==
    BS_device_info_from(ths, e, get_remote_sensors(ths, e.index), 1)

BS_available(ths, e) == get_thermostat(ths, e.index).runtime.connected

BS_is_on_truthy(e) == e._state # None /\ e._state # ""

\* is_on: self._state == "true"
BS_is_on(e) == e._state = "true"

\* the inner loop of async_update: the first occupancy item of the sensor
RECURSIVE FirstOccupancy(_, _, _)
FirstOccupancy(capability, k, state) ==
    IF k > Len(capability) THEN state
    ELSE IF capability[k].type # "occupancy"
         THEN FirstOccupancy(capability, k + 1, state)
         ELSE capability[k].value

\* the outer loop of async_update: every sensor with the entity's name is
\* visited (the break leaves the inner loop only), the cached value is
\* assigned from each that has an occupancy item and is left alone otherwise
RECURSIVE UpdateState(_, _, _, _)
UpdateState(sensors, j, sensor_name, state) ==
    IF j > Len(sensors) THEN state
    ELSE IF sensors[j].name # sensor_name
         THEN UpdateState(sensors, j + 1, sensor_name, state)
         ELSE UpdateState(sensors, j + 1, sensor_name,
                          FirstOccupancy(sensors[j].capability, 1, state))

----------------------------------------------------------------------------
(* The shared data holder. data.update() replaces the thermostat list by a  *)
(* new fetch: equipment status, connection state, the remote sensors that   *)
(* report and their occupancy readings change; identifiers, model numbers,  *)
(* settings, sensor names, codes and ids do not.                            *)

NotReported == "<not reported>"

\* the sensors a fetch reports, each with its occupancy reading of this fetch
RECURSIVE Report(_, _, _)
Report(sensors, j, reading) ==
    IF j > Len(sensors) THEN <<>>
    ELSE (IF reading[j] # NotReported
          THEN << [sensors[j] EXCEPT !.capability =
                      [k \in 1..Len(sensors[j].capability) |->
                          Capability(sensors[j].capability[k].type, reading[j])]] >>
          ELSE <<>>)
         \o Report(sensors, j + 1, reading)

ThermostatFetches(t) ==
    { [t EXCEPT !.equipmentStatus = eq,
                !.runtime.connected = c,
                !.remoteSensors = Report(t.remoteSensors, 1, reading)] :
        eq \in EquipmentStatuses, c \in BOOLEAN,
        reading \in [1..Len(t.remoteSensors) -> OccupancyValues \cup {NotReported}] }

RECURSIVE Fetches(_, _)
Fetches(inst, i) ==
    IF i > Len(inst) THEN { <<>> }
    ELSE { <<t>> \o rest : t \in ThermostatFetches(inst[i]), rest \in Fetches(inst, i + 1) }

Awaiting ==
    \/ \E e \in 1..Len(dev) : dev_pc[e] = "await"
    \/ \E v \in 1..Len(entities) : entities_pc[v] = "await"

\* the refresh an awaited data.update() performs (a throttled call performs none)
DataUpdate ==
    /\ pc = "done"
    /\ Awaiting
    /\ thermostats' \in Fetches(installation, 1)
    /\ completed' = None
    /\ UNCHANGED <<installation, pc, add_calls, dev, entities, services,
                   dev_pc, entities_pc>>

----------------------------------------------------------------------------
(* async_update of the entities: suspends in data.update(), then reads.     *)

V_async_update_call(v) ==
    /\ pc = "done"
    /\ entities_pc[v] = "idle"
    /\ entities_pc' = [entities_pc EXCEPT ![v] = "await"]
    /\ completed' = None
    /\ UNCHANGED <<thermostats, installation, pc, add_calls, dev, entities,
                   services, dev_pc>>

V_async_update_return(v) ==
    /\ pc = "done"
    /\ entities_pc[v] = "await"
    /\ entities' = [entities EXCEPT ![v].thermostat =
                        get_thermostat(thermostats, entities[v].thermostat_index)]
    /\ entities_pc' = [entities_pc EXCEPT ![v] = "idle"]
    /\ completed' = "entities" \o ToString(v)
    /\ UNCHANGED <<thermostats, installation, pc, add_calls, dev, services, dev_pc>>

BS_async_update_call(e) ==
    /\ pc = "done"
    /\ dev_pc[e] = "idle"
    /\ dev_pc' = [dev_pc EXCEPT ![e] = "await"]
    /\ completed' = None
    /\ UNCHANGED <<thermostats, installation, pc, add_calls, dev, entities,
                   services, entities_pc>>

BS_async_update_return(e) ==
    /\ pc = "done"
    /\ dev_pc[e] = "await"
    /\ dev' = [dev EXCEPT ![e]._state =
                  UpdateState(get_remote_sensors(thermostats, dev[e].index), 1,
                              dev[e].sensor_name, dev[e]._state)]
    /\ dev_pc' = [dev_pc EXCEPT ![e] = "idle"]
    /\ completed' = "dev" \o ToString(e)
    /\ UNCHANGED <<thermostats, installation, pc, add_calls, entities, services,
                   entities_pc>>

----------------------------------------------------------------------------
(* The setup explored on every installation within the bounds.              *)

InitSetup ==
    /\ \E n \in 0..MaxThermostats :
       \E base \in [1..n -> ThermostatBases] :
       \E cnt \in [1..n -> 0..MaxSensors] :
          /\ SumTo(cnt, n) <= MaxSensors
          /\ \E flat \in [1..SumTo(cnt, n) -> SensorKinds] :
                installation = FirstFetch(n, base, cnt, flat)
    /\ thermostats = installation
    /\ pc = "start"
    /\ add_calls = 0
    /\ dev = <<>>
    /\ entities = <<>>
    /\ services = {}
    /\ dev_pc = <<>>
    /\ entities_pc = <<>>
    /\ completed = None

NextSetup == async_setup_entry

SpecSetup == InitSetup /\ [][NextSetup]_vars

----------------------------------------------------------------------------------------------------------------------------------------
(* Polling explored on the installations of one thermostat, of a model in   *)
(* the table or not, with or without a ventilator, and one remote sensor,   *)
(* with or without a code, with any of the capability lists.                *)

PollInstallations ==
    { FirstFetch(1, <<[ventilatorType |-> vt, modelNumber |-> m]>>, <<1>>,
                 << [name |-> "Bedroom", coded |-> coded, capability |-> c] >>) :
        vt \in VentilatorTypes, m \in ModelNumbers, coded \in BOOLEAN,
        c \in CapabilityTypes }

Init ==
    /\ installation \in PollInstallations
    /\ thermostats = installation
    /\ pc = "start"
    /\ add_calls = 0
    /\ dev = <<>>
    /\ entities = <<>>
    /\ services = {}
    /\ dev_pc = <<>>
    /\ entities_pc = <<>>
    /\ completed = None

Next ==
    \/ async_setup_entry
    \/ DataUpdate
    \/ \E v \in 1..Len(entities) : V_async_update_call(v)
    \/ \E v \in 1..Len(entities) : V_async_update_return(v)
    \/ \E e \in 1..Len(dev) : BS_async_update_call(e)
    \/ \E e \in 1..Len(dev) : BS_async_update_return(e)

Spec == Init /\ [][Next]_vars

----------------------------------------------------------------------------
(* Properties of the setup, checked under SpecSetup.                        *)

Finished == pc # "start"

Indexes == 0..(Len(thermostats) - 1)

Equipped == { i \in Indexes : get_thermostat(thermostats, i).settings.ventilatorType # "none" }

VentilatorsOf(i) == { v \in 1..Len(entities) : entities[v].thermostat_index = i }

\* C1: after async_setup_entry the ventilator entities handed to
\* async_add_entities are exactly one per thermostat whose ventilatorType is
\* not "none", each carrying that thermostat's index.
C1_OneVentilatorPerEquippedThermostat ==
    Finished =>
        /\ \A i \in Equipped : Cardinality(VentilatorsOf(i)) = 1
        /\ \A v \in 1..Len(entities) : entities[v].thermostat_index \in Equipped

\* C2: no ventilator entity handed to async_add_entities carries the index of
\* a thermostat whose ventilatorType is "none".
C2_NoVentilatorForTypeNone ==
    Finished =>
        \A i \in Indexes :
            get_thermostat(thermostats, i).settings.ventilatorType = "none"
                => VentilatorsOf(i) = {}

\* C2 witness: a "none" thermostat beside an equipped one whose ventilator
\* entity was handed over.
C2_Witness ==
    /\ pc = "done"
    /\ Len(thermostats) = 2
    /\ get_thermostat(thermostats, 0).settings.ventilatorType = "none"
    /\ get_thermostat(thermostats, 1).settings.ventilatorType = "hrv"
    /\ Len(entities) = 1
    /\ entities[1].thermostat_index = 1

OccupancySensors(i, name) ==
    { j \in 1..Len(get_remote_sensors(thermostats, i)) :
        /\ get_remote_sensors(thermostats, i)[j].name = name
        /\ \E k \in 1..Len(get_remote_sensors(thermostats, i)[j].capability) :
              get_remote_sensors(thermostats, i)[j].capability[k].type = "occupancy" }

SensorEntitiesOf(i, name) ==
    { e \in 1..Len(dev) : dev[e].index = i /\ dev[e].sensor_name = name }

\* C3: the setup registers exactly one EcobeeBinarySensor for every remote
\* sensor that has an occupancy capability, also when the capability list
\* holds several occupancy entries, none for the other sensors, and the
\* entities' device class is occupancy.
C3_OneEntityPerOccupancySensor ==
    Finished =>
        /\ \A i \in Indexes : \A name \in SensorNames :
              Cardinality(SensorEntitiesOf(i, name)) = Cardinality(OccupancySensors(i, name))
        /\ BS_device_class = "occupancy"

\* C8: for every thermostat list, the empty one included, the setup ends
\* without raising, both entity lists handed over and the three services
\* registered.
C8_SetupCompletes ==
    Finished =>
        /\ pc = "done"
        /\ add_calls = 2
        /\ services = { "set_ventilator_min_on_time_home",
                        "set_ventilator_min_on_time_away",
                        "set_ventilator_timer" }

\* C10: any two distinct entities handed over by one setup have different
\* unique ids, and none is absent.
C10_UniqueIdsDistinct ==
    Finished =>
        /\ \A e \in 1..Len(dev) : BS_unique_id(thermostats, dev[e]) # None
        /\ \A e1, e2 \in 1..Len(dev) :
              e1 # e2 => BS_unique_id(thermostats, dev[e1]) # BS_unique_id(thermostats, dev[e2])
        /\ \A v1, v2 \in 1..Len(entities) :
              v1 # v2 => V_unique_id(entities[v1]) # V_unique_id(entities[v2])
        /\ \A e \in 1..Len(dev) : \A v \in 1..Len(entities) :
              BS_unique_id(thermostats, dev[e]) # V_unique_id(entities[v])

----------------------------------------------------------------------------
(* Properties of the polling, checked under Spec.                           *)

\* C4: whenever a ventilator entity is not itself inside async_update, its
\* is_on is true iff "ventilator" is in the equipmentStatus of the record the
\* holder now returns for its index, and is_on and available read one record.
C4_IsOnReadsCurrentRecord ==
    \A v \in 1..Len(entities) :
        entities_pc[v] = "idle" =>
            /\ V_is_on(entities[v]) =
                  VentilatorRunning(get_thermostat(thermostats, entities[v].thermostat_index))
            /\ V_available(thermostats, entities[v])
                  = entities[v].thermostat.runtime.connected

\* C5: an occupancy entity's is_on is true iff its cached value is exactly
\* "true"; for "false" and for the absent value before the first refresh it
\* is false.
C5_IsOnIffCachedTrue ==
    \A e \in 1..Len(dev) :
        /\ dev[e]._state \in {None, "true", "false"}
        /\ dev[e]._state = "true" => BS_is_on(dev[e]) = TRUE
        /\ dev[e]._state = "false" => BS_is_on(dev[e]) = FALSE
        /\ dev[e]._state = None => BS_is_on(dev[e]) = FALSE

\* C5 witness: an entity whose refresh just cached the reading "false": it
\* is off.
C5_Witness ==
    \E e \in 1..Len(dev) :
        /\ completed = "dev" \o ToString(e)
        /\ dev[e]._state = "false"
        /\ ~BS_is_on(dev[e])

\* C6: after any sequence of polls every entity's unique_id is the one it had
\* at setup, on the first fetch, and is never absent.
C6_UniqueIdStable ==
    pc = "done" =>
        /\ \A e \in 1..Len(dev) :
              /\ BS_unique_id(thermostats, dev[e]) = BS_unique_id(installation, dev[e])
              /\ BS_unique_id(thermostats, dev[e]) # None
        /\ \A v \in 1..Len(entities) :
              V_unique_id(entities[v])
                  = get_thermostat(installation, entities[v].thermostat_index).identifier

\* the current list has a sensor of that name with an occupancy item "true"
ReportsOccupied(i, name) ==
    \E j \in 1..Len(get_remote_sensors(thermostats, i)) :
        /\ get_remote_sensors(thermostats, i)[j].name = name
        /\ \E k \in 1..Len(get_remote_sensors(thermostats, i)[j].capability) :
              /\ get_remote_sensors(thermostats, i)[j].capability[k].type = "occupancy"
              /\ get_remote_sensors(thermostats, i)[j].capability[k].value = "true"

\* C9: right after an occupancy entity's async_update returned, is_on is true
\* iff the list that update read reports the entity's sensor occupied; no
\* value of an earlier poll survives.
C9_StateRederivedEveryPoll ==
    \A e \in 1..Len(dev) :
        completed = "dev" \o ToString(e) =>
            (BS_is_on(dev[e]) <=> ReportsOccupied(dev[e].index, dev[e].sensor_name))

Known(thermostat) == thermostat.modelNumber \in DOMAIN ECOBEE_MODEL_TO_NAME

\* what the claim expects of a device_info built from a thermostat record
ExpectedInfo(info, thermostat, name) ==
    /\ "exception" \notin DOMAIN info
    /\ info.identifiers = {<<"ecobee", thermostat.identifier>>}
    /\ info.manufacturer = "ecobee"
    /\ info.name = name
    /\ Known(thermostat) =>
          info.model = ECOBEE_MODEL_TO_NAME[thermostat.modelNumber] \o " Thermostat"
    /\ ~Known(thermostat) => info.model = None

Named(e) ==
    { j \in 1..Len(get_remote_sensors(thermostats, dev[e].index)) :
        get_remote_sensors(thermostats, dev[e].index)[j].name = dev[e].sensor_name }

FirstNamed(e) == CHOOSE j \in Named(e) : \A k \in Named(e) : j <= k

\* the occupancy entity's sensor is in the current list and has no code
Codeless(e) ==
    /\ Named(e) # {}
    /\ "code" \notin DOMAIN get_remote_sensors(thermostats, dev[e].index)[FirstNamed(e)]

\* C7: device_info of a ventilator entity, and of an occupancy entity whose
\* sensor has no code, has model "<Name> Thermostat" for a model number of
\* the table and an absent model otherwise, with identifiers, manufacturer
\* and name returned and nothing raised.
C7_DeviceInfoModel ==
    /\ \A v \in 1..Len(entities) :
          ExpectedInfo(V_device_info(entities[v]),
                       get_thermostat(thermostats, entities[v].thermostat_index),
                       "Thermostat" \o ToString(entities[v].thermostat_index + 1)
                           \o " Ventilator")
    /\ \A e \in 1..Len(dev) :
          Codeless(e) =>
              ExpectedInfo(BS_device_info(thermostats, dev[e]),
                           get_thermostat(thermostats, dev[e].index), dev[e].sensor_name)

\* C7 witness: a ventilator and an occupancy entity of a codeless sensor, of
\* a thermostat whose model number is not in the table: both report no model.
C7_Witness ==
    /\ pc = "done"
    /\ \E v \in 1..Len(entities) :
          /\ ~Known(entities[v].thermostat)
          /\ V_device_info(entities[v]).model = None
    /\ \E e \in 1..Len(dev) :
          /\ Codeless(e)
          /\ ~Known(get_thermostat(thermostats, dev[e].index))
          /\ BS_device_info(thermostats, dev[e]).model = None
          /\ BS_device_info(thermostats, dev[e]).identifiers = {<<"ecobee", "41101">>}

====
